---- MODULE Spec2Model ----
(***************************************************************************)
(* The library-usage analyzer of src/src/github_library_analyzer.py:       *)
(*   - _LibraryUsageExtractor: parse, parent links, _AliasCollector and    *)
(*     _UsageCollector walking the syntax tree (specification Spec);       *)
(*   - GitHubLibraryAnalyzer.analyze_library with the paged code search    *)
(*     (specification SpecFacade).                                         *)
(*                                                                         *)
(* A Python string is a sequence of tokens: an identifier is one token and *)
(* "." is a token of its own, so "pkg.sub" is <<"pkg", ".", "sub">>.  None  *)
(* and the empty string are both <<>> (the code only tests truthiness).    *)
(* A syntax-tree node is a record; its identity is its path from the root  *)
(* (the sequence of child indexes in ast.iter_child_nodes order).          *)
(***************************************************************************)
EXTENDS Integers, Sequences, FiniteSets, TLC

VARIABLES
    \* one _LibraryUsageExtractor run
    library,      \* the target library name
    source,       \* the source text (a sequence of the sample fragments below)
    pc,           \* position in __init__ / extract_blocks
    tree,         \* self.tree
    lines,        \* self.lines
    parent,       \* self.parent
    stack,        \* the NodeVisitor's pending nodes (its recursion, made explicit)
    aliases,      \* _AliasCollector.aliases
    blocks_map,   \* _UsageCollector.blocks_map, in insertion order
    recorded,     \* history: every _record call so far, <<node, symbol, container>>
    origin,       \* history: the node whose _record call last stored each block
    result,       \* what extract_blocks returned
    raised,       \* the exception that left the extractor / the facade, or "none"
    \* one GitHubLibraryAnalyzer.analyze_library call
    fpc,          \* position in analyze_library ("idle": no call is running)
    max_files,    \* analyze_library's max_files, the search's limit
    per_page,
    gathered,     \* _iter_code_search_results: gathered
    page,         \* _iter_code_search_results: page
    items,        \* the search results yielded so far, then the list iterated
    requests,     \* history: the /search/code requests sent
    downloads,    \* history: the items handed to _download_source
    analysed,     \* how many of items the for loop is done with
    results       \* analyze_library's results list

vars == <<library, source, pc, tree, lines, parent, stack, aliases, blocks_map,
          recorded, origin, result, raised,
          fpc, max_files, per_page, gathered, page, items, requests,
          downloads, analysed, results>>

facadeVars == <<fpc, max_files, per_page, gathered, page, items, requests,
                downloads, analysed, results>>

(***************************************************************************)
(* Bounds of the model.                                                    *)
(***************************************************************************)
\* usage fragments per sample source text (after its import line)
MaxStmts == 1
\* largest max_files and per_page tried, and the pages the search serves
MaxFilesBound == 2
PerPageBound == 2
MaxPages == 3

(***************************************************************************)
(* Python strings and lists.                                               *)
(***************************************************************************)
None == <<>>

Dot == <<".">>

\* str.startswith
startswith(s, prefix) ==
    /\ Len(prefix) <= Len(s)
    /\ SubSeq(s, 1, Len(prefix)) = prefix

\* str.endswith
endswith(s, suffix) ==
    /\ Len(suffix) <= Len(s)
    /\ SubSeq(s, Len(s) - Len(suffix) + 1, Len(s)) = suffix

\* str.split("."): the segments between the dots
RECURSIVE split(_)
split(s) ==
    IF \A i \in DOMAIN s : s[i] # "."
    THEN <<s>>
    ELSE LET i == CHOOSE k \in DOMAIN s :
                      s[k] = "." /\ \A j \in 1..(k - 1) : s[j] # "."
         IN  <<SubSeq(s, 1, i - 1)>> \o split(SubSeq(s, i + 1, Len(s)))

\* ".".join(parts)
RECURSIVE join(_)
join(parts) ==
    IF parts = <<>> THEN <<>>
    ELSE IF Len(parts) = 1 THEN parts[1]
    ELSE parts[1] \o Dot \o join(Tail(parts))

\* reversed(parts)
reversed(parts) == [i \in 1..Len(parts) |-> parts[Len(parts) + 1 - i]]

(***************************************************************************)
(* Syntax trees, as ast.parse builds them.                                 *)
(***************************************************************************)
Node(kind, id, asname, lineno, end_lineno, col_offset, kids) ==
    [kind |-> kind, id |-> id, asname |-> asname, placed |-> TRUE,
     lineno |-> lineno, end_lineno |-> end_lineno, col_offset |-> col_offset,
     kids |-> kids]

\* a node that carries no lineno attribute (Module, arguments)
Unplaced(kind, kids) ==
    [kind |-> kind, id |-> None, asname |-> None, placed |-> FALSE,
     lineno |-> 0, end_lineno |-> 0, col_offset |-> 0, kids |-> kids]

NoKids == <<>>

\* the node-valued entries of each class's _fields, in _fields order (the
\* expr_context of a Name or Attribute is left out: visiting it does nothing)
Fields(kind) ==
    CASE kind = "Module" -> <<"body">>
      [] kind \in {"Import", "ImportFrom"} -> <<"names">>
      [] kind \in {"FunctionDef", "AsyncFunctionDef"} ->
             <<"args", "body", "decorator_list", "returns">>
      [] kind = "ClassDef" -> <<"bases", "keywords", "body", "decorator_list">>
      [] kind = "arguments" ->
             <<"posonlyargs", "args", "vararg", "kwonlyargs", "kw_defaults",
               "kwarg", "defaults">>
      [] kind = "arg" -> <<"annotation">>
      [] kind = "If" -> <<"test", "body", "orelse">>
      [] kind = "IfExp" -> <<"test", "body", "orelse">>
      [] kind = "Assign" -> <<"targets", "value">>
      [] kind \in {"Expr", "Return", "Attribute"} -> <<"value">>
      [] kind = "Call" -> <<"func", "args", "keywords">>
      [] OTHER -> <<>>

\* isinstance(node, ast.stmt)
StmtKinds ==
    {"FunctionDef", "AsyncFunctionDef", "ClassDef", "Import", "ImportFrom",
     "If", "Assign", "Expr", "Return"}

\* isinstance(node, (ast.FunctionDef, ast.AsyncFunctionDef, ast.ClassDef))
DefKinds == {"FunctionDef", "AsyncFunctionDef", "ClassDef"}

RECURSIVE FieldNodes(_, _)
FieldNodes(node, fields) ==
    IF fields = <<>> THEN <<>>
    ELSE node.kids[Head(fields)] \o FieldNodes(node, Tail(fields))

\* ast.iter_child_nodes: the children, field by field in _fields order
iter_child_nodes(node) == FieldNodes(node, Fields(node.kind))

Root == <<>>

\* dict.get's None for a node: no path has a 0 in it
NoNode == <<0>>

RECURSIVE NodeAt(_, _)
NodeAt(t, p) ==
    IF p = <<>> THEN t
    ELSE NodeAt(iter_child_nodes(t)[Head(p)], Tail(p))

ChildPaths(t, p) ==
    [i \in 1..Len(iter_child_nodes(NodeAt(t, p))) |-> Append(p, i)]

\* the path of parent.value, for an Attribute at p
ValuePath(p) == Append(p, 1)

RECURSIVE AllPathsFrom(_, _)
AllPathsFrom(t, p) ==
    {p} \cup UNION {AllPathsFrom(t, ChildPaths(t, p)[i]) :
                       i \in 1..Len(ChildPaths(t, p))}

AllPaths(t) == AllPathsFrom(t, Root)

\* ImportPlain:
\*     import pkg
ImportPlain(l) ==
  <<
    Node("Import", <<>>, <<>>, l, l, 0, [
      names |-> <<
        Node("alias", <<"pkg">>, <<>>, l, l, 7, NoKids) >> ]) >>

\* ImportAs:
\*     import pkg as np
ImportAs(l) ==
  <<
    Node("Import", <<>>, <<>>, l, l, 0, [
      names |-> <<
        Node("alias", <<"pkg">>, <<"np">>, l, l, 7, NoKids) >> ]) >>

\* ImportSubmodule:
\*     import other, pkg.sub
ImportSubmodule(l) ==
  <<
    Node("Import", <<>>, <<>>, l, l, 0, [
      names |-> <<
        Node("alias", <<"other">>, <<>>, l, l, 7, NoKids),
        Node("alias", <<"pkg", ".", "sub">>, <<>>, l, l, 14, NoKids) >> ]) >>

\* ImportSiblingAs:
\*     import pkg.other as np
ImportSiblingAs(l) ==
  <<
    Node("Import", <<>>, <<>>, l, l, 0, [
      names |-> <<
        Node("alias", <<"pkg", ".", "other">>, <<"np">>, l, l, 7, NoKids) >> ]) >>

\* ImportUnrelated:
\*     import other as np, pkgx as pkg
ImportUnrelated(l) ==
  <<
    Node("Import", <<>>, <<>>, l, l, 0, [
      names |-> <<
        Node("alias", <<"other">>, <<"np">>, l, l, 7, NoKids),
        Node("alias", <<"pkgx">>, <<"pkg">>, l, l, 20, NoKids) >> ]) >>

\* FromImportName:
\*     from pkg import np, fn as pkg
FromImportName(l) ==
  <<
    Node("ImportFrom", <<"pkg">>, <<>>, l, l, 0, [
      names |-> <<
        Node("alias", <<"np">>, <<>>, l, l, 16, NoKids),
        Node("alias", <<"fn">>, <<"pkg">>, l, l, 20, NoKids) >> ]) >>

\* FromSubImport:
\*     from pkg.sub import fn as np
FromSubImport(l) ==
  <<
    Node("ImportFrom", <<"pkg", ".", "sub">>, <<>>, l, l, 0, [
      names |-> <<
        Node("alias", <<"fn">>, <<"np">>, l, l, 20, NoKids) >> ]) >>

\* FromImportStar:
\*     from pkg import *
FromImportStar(l) ==
  <<
    Node("ImportFrom", <<"pkg">>, <<>>, l, l, 0, [
      names |-> <<
        Node("alias", <<"*">>, <<>>, l, l, 16, NoKids) >> ]) >>

\* FromSubImportStar:
\*     from pkg.sub import *
FromSubImportStar(l) ==
  <<
    Node("ImportFrom", <<"pkg", ".", "sub">>, <<>>, l, l, 0, [
      names |-> <<
        Node("alias", <<"*">>, <<>>, l, l, 20, NoKids) >> ]) >>

\* FromRelative:
\*     from . import np
FromRelative(l) ==
  <<
    Node("ImportFrom", <<>>, <<>>, l, l, 0, [
      names |-> <<
        Node("alias", <<"np">>, <<>>, l, l, 14, NoKids) >> ]) >>

\* FromUnrelated:
\*     from other.pkg import np, pkg
FromUnrelated(l) ==
  <<
    Node("ImportFrom", <<"other", ".", "pkg">>, <<>>, l, l, 0, [
      names |-> <<
        Node("alias", <<"np">>, <<>>, l, l, 22, NoKids),
        Node("alias", <<"pkg">>, <<>>, l, l, 26, NoKids) >> ]) >>

\* CallStmt:
\*     np.array(pkg)
CallStmt(l) ==
  <<
    Node("Expr", <<>>, <<>>, l, l, 0, [
      value |-> <<
        Node("Call", <<>>, <<>>, l, l, 0, [
          func |-> <<
            Node("Attribute", <<"array">>, <<>>, l, l, 0, [
              value |-> <<
                Node("Name", <<"np">>, <<>>, l, l, 0, NoKids) >> ]) >>,
          args |-> <<
            Node("Name", <<"pkg">>, <<>>, l, l, 9, NoKids) >>,
          keywords |-> <<>> ]) >> ]) >>

\* ChainAssign:
\*     x = pkg.sub.fn
ChainAssign(l) ==
  <<
    Node("Assign", <<>>, <<>>, l, l, 0, [
      targets |-> <<
        Node("Name", <<"x">>, <<>>, l, l, 0, NoKids) >>,
      value |-> <<
        Node("Attribute", <<"fn">>, <<>>, l, l, 4, [
          value |-> <<
            Node("Attribute", <<"sub">>, <<>>, l, l, 4, [
              value |-> <<
                Node("Name", <<"pkg">>, <<>>, l, l, 4, NoKids) >> ]) >> ]) >> ]) >>

\* CallChain:
\*     np.a().b
CallChain(l) ==
  <<
    Node("Expr", <<>>, <<>>, l, l, 0, [
      value |-> <<
        Node("Attribute", <<"b">>, <<>>, l, l, 0, [
          value |-> <<
            Node("Call", <<>>, <<>>, l, l, 0, [
              func |-> <<
                Node("Attribute", <<"a">>, <<>>, l, l, 0, [
                  value |-> <<
                    Node("Name", <<"np">>, <<>>, l, l, 0, NoKids) >> ]) >>,
              args |-> <<>>,
              keywords |-> <<>> ]) >> ]) >> ]) >>

\* DecoratedDef:
\*     @np.deco
\*     def f(a=np.x, *, b=pkg.y) -> np.R:
\*         return np.a if pkg.b else np.c
DecoratedDef(l) ==
  <<
    Node("FunctionDef", <<"f">>, <<>>, l + 1, l + 2, 0, [
      args |-> <<
        Unplaced("arguments", [
          posonlyargs |-> <<>>,
          args |-> <<
            Node("arg", <<"a">>, <<>>, l + 1, l + 1, 6, [
              annotation |-> <<>> ]) >>,
          vararg |-> <<>>,
          kwonlyargs |-> <<
            Node("arg", <<"b">>, <<>>, l + 1, l + 1, 17, [
              annotation |-> <<>> ]) >>,
          kw_defaults |-> <<
            Node("Attribute", <<"y">>, <<>>, l + 1, l + 1, 19, [
              value |-> <<
                Node("Name", <<"pkg">>, <<>>, l + 1, l + 1, 19, NoKids) >> ]) >>,
          kwarg |-> <<>>,
          defaults |-> <<
            Node("Attribute", <<"x">>, <<>>, l + 1, l + 1, 8, [
              value |-> <<
                Node("Name", <<"np">>, <<>>, l + 1, l + 1, 8, NoKids) >> ]) >> ]) >>,
      body |-> <<
        Node("Return", <<>>, <<>>, l + 2, l + 2, 4, [
          value |-> <<
            Node("IfExp", <<>>, <<>>, l + 2, l + 2, 11, [
              test |-> <<
                Node("Attribute", <<"b">>, <<>>, l + 2, l + 2, 19, [
                  value |-> <<
                    Node("Name", <<"pkg">>, <<>>, l + 2, l + 2, 19, NoKids) >> ]) >>,
              body |-> <<
                Node("Attribute", <<"a">>, <<>>, l + 2, l + 2, 11, [
                  value |-> <<
                    Node("Name", <<"np">>, <<>>, l + 2, l + 2, 11, NoKids) >> ]) >>,
              orelse |-> <<
                Node("Attribute", <<"c">>, <<>>, l + 2, l + 2, 30, [
                  value |-> <<
                    Node("Name", <<"np">>, <<>>, l + 2, l + 2, 30, NoKids) >> ]) >> ]) >> ]) >>,
      decorator_list |-> <<
        Node("Attribute", <<"deco">>, <<>>, l, l, 1, [
          value |-> <<
            Node("Name", <<"np">>, <<>>, l, l, 1, NoKids) >> ]) >>,
      returns |-> <<
        Node("Attribute", <<"R">>, <<>>, l + 1, l + 1, 29, [
          value |-> <<
            Node("Name", <<"np">>, <<>>, l + 1, l + 1, 29, NoKids) >> ]) >> ]) >>

\* ClassWithMethod:
\*     class K(np.Base):
\*         v = pkg
\*         def m(self):
\*             return np.z
ClassWithMethod(l) ==
  <<
    Node("ClassDef", <<"K">>, <<>>, l, l + 3, 0, [
      bases |-> <<
        Node("Attribute", <<"Base">>, <<>>, l, l, 8, [
          value |-> <<
            Node("Name", <<"np">>, <<>>, l, l, 8, NoKids) >> ]) >>,
      keywords |-> <<>>,
      body |-> <<
        Node("Assign", <<>>, <<>>, l + 1, l + 1, 4, [
          targets |-> <<
            Node("Name", <<"v">>, <<>>, l + 1, l + 1, 4, NoKids) >>,
          value |-> <<
            Node("Name", <<"pkg">>, <<>>, l + 1, l + 1, 8, NoKids) >> ]),
        Node("FunctionDef", <<"m">>, <<>>, l + 2, l + 3, 4, [
          args |-> <<
            Unplaced("arguments", [
              posonlyargs |-> <<>>,
              args |-> <<
                Node("arg", <<"self">>, <<>>, l + 2, l + 2, 10, [
                  annotation |-> <<>> ]) >>,
              vararg |-> <<>>,
              kwonlyargs |-> <<>>,
              kw_defaults |-> <<>>,
              kwarg |-> <<>>,
              defaults |-> <<>> ]) >>,
          body |-> <<
            Node("Return", <<>>, <<>>, l + 3, l + 3, 8, [
              value |-> <<
                Node("Attribute", <<"z">>, <<>>, l + 3, l + 3, 15, [
                  value |-> <<
                    Node("Name", <<"np">>, <<>>, l + 3, l + 3, 15, NoKids) >> ]) >> ]) >>,
          decorator_list |-> <<>>,
          returns |-> <<>> ]) >>,
      decorator_list |-> <<>> ]) >>

\* NestedDef:
\*     async def g():
\*         np.o
\*         def h():
\*             import pkg.sub as np
\*             pkg.i
NestedDef(l) ==
  <<
    Node("AsyncFunctionDef", <<"g">>, <<>>, l, l + 4, 0, [
      args |-> <<
        Unplaced("arguments", [
          posonlyargs |-> <<>>,
          args |-> <<>>,
          vararg |-> <<>>,
          kwonlyargs |-> <<>>,
          kw_defaults |-> <<>>,
          kwarg |-> <<>>,
          defaults |-> <<>> ]) >>,
      body |-> <<
        Node("Expr", <<>>, <<>>, l + 1, l + 1, 4, [
          value |-> <<
            Node("Attribute", <<"o">>, <<>>, l + 1, l + 1, 4, [
              value |-> <<
                Node("Name", <<"np">>, <<>>, l + 1, l + 1, 4, NoKids) >> ]) >> ]),
        Node("FunctionDef", <<"h">>, <<>>, l + 2, l + 4, 4, [
          args |-> <<
            Unplaced("arguments", [
              posonlyargs |-> <<>>,
              args |-> <<>>,
              vararg |-> <<>>,
              kwonlyargs |-> <<>>,
              kw_defaults |-> <<>>,
              kwarg |-> <<>>,
              defaults |-> <<>> ]) >>,
          body |-> <<
            Node("Import", <<>>, <<>>, l + 3, l + 3, 8, [
              names |-> <<
                Node("alias", <<"pkg", ".", "sub">>, <<"np">>, l + 3, l + 3, 15, NoKids) >> ]),
            Node("Expr", <<>>, <<>>, l + 4, l + 4, 8, [
              value |-> <<
                Node("Attribute", <<"i">>, <<>>, l + 4, l + 4, 8, [
                  value |-> <<
                    Node("Name", <<"pkg">>, <<>>, l + 4, l + 4, 8, NoKids) >> ]) >> ]) >>,
          decorator_list |-> <<>>,
          returns |-> <<>> ]) >>,
      decorator_list |-> <<>>,
      returns |-> <<>> ]) >>

\* TopLevelIf:
\*     if np.t:
\*         z = pkg.u
TopLevelIf(l) ==
  <<
    Node("If", <<>>, <<>>, l, l + 1, 0, [
      test |-> <<
        Node("Attribute", <<"t">>, <<>>, l, l, 3, [
          value |-> <<
            Node("Name", <<"np">>, <<>>, l, l, 3, NoKids) >> ]) >>,
      body |-> <<
        Node("Assign", <<>>, <<>>, l + 1, l + 1, 4, [
          targets |-> <<
            Node("Name", <<"z">>, <<>>, l + 1, l + 1, 4, NoKids) >>,
          value |-> <<
            Node("Attribute", <<"u">>, <<>>, l + 1, l + 1, 8, [
              value |-> <<
                Node("Name", <<"pkg">>, <<>>, l + 1, l + 1, 8, NoKids) >> ]) >> ]) >>,
      orelse |-> <<>> ]) >>

\* SharedLine:
\*     x = np.p(
\*       1); y = pkg.q(
\*       2)
SharedLine(l) ==
  <<
    Node("Assign", <<>>, <<>>, l, l + 1, 0, [
      targets |-> <<
        Node("Name", <<"x">>, <<>>, l, l, 0, NoKids) >>,
      value |-> <<
        Node("Call", <<>>, <<>>, l, l + 1, 4, [
          func |-> <<
            Node("Attribute", <<"p">>, <<>>, l, l, 4, [
              value |-> <<
                Node("Name", <<"np">>, <<>>, l, l, 4, NoKids) >> ]) >>,
          args |-> <<
            Node("Constant", <<>>, <<>>, l + 1, l + 1, 2, NoKids) >>,
          keywords |-> <<>> ]) >> ]),
    Node("Assign", <<>>, <<>>, l + 1, l + 2, 6, [
      targets |-> <<
        Node("Name", <<"y">>, <<>>, l + 1, l + 1, 6, NoKids) >>,
      value |-> <<
        Node("Call", <<>>, <<>>, l + 1, l + 2, 10, [
          func |-> <<
            Node("Attribute", <<"q">>, <<>>, l + 1, l + 1, 10, [
              value |-> <<
                Node("Name", <<"pkg">>, <<>>, l + 1, l + 1, 10, NoKids) >> ]) >>,
          args |-> <<
            Node("Constant", <<>>, <<>>, l + 2, l + 2, 2, NoKids) >>,
          keywords |-> <<>> ]) >> ]) >>

\* the statements of fragment `name` when its first line is line l
FragmentStmts(name, l) ==
    CASE name = "ImportPlain" -> ImportPlain(l)
      [] name = "ImportAs" -> ImportAs(l)
      [] name = "ImportSubmodule" -> ImportSubmodule(l)
      [] name = "ImportSiblingAs" -> ImportSiblingAs(l)
      [] name = "ImportUnrelated" -> ImportUnrelated(l)
      [] name = "FromImportName" -> FromImportName(l)
      [] name = "FromSubImport" -> FromSubImport(l)
      [] name = "FromImportStar" -> FromImportStar(l)
      [] name = "FromSubImportStar" -> FromSubImportStar(l)
      [] name = "FromRelative" -> FromRelative(l)
      [] name = "FromUnrelated" -> FromUnrelated(l)
      [] name = "CallStmt" -> CallStmt(l)
      [] name = "ChainAssign" -> ChainAssign(l)
      [] name = "CallChain" -> CallChain(l)
      [] name = "DecoratedDef" -> DecoratedDef(l)
      [] name = "ClassWithMethod" -> ClassWithMethod(l)
      [] name = "NestedDef" -> NestedDef(l)
      [] name = "TopLevelIf" -> TopLevelIf(l)
      [] name = "SharedLine" -> SharedLine(l)
      [] OTHER -> <<>>

\* the text of each fragment, line by line: leading blanks counted, rest kept
FragmentLines(name) ==
    CASE name = "ImportPlain" ->
             <<[indent |-> 0, text |-> "import pkg"]>>
      [] name = "ImportAs" ->
             <<[indent |-> 0, text |-> "import pkg as np"]>>
      [] name = "ImportSubmodule" ->
             <<[indent |-> 0, text |-> "import other, pkg.sub"]>>
      [] name = "ImportSiblingAs" ->
             <<[indent |-> 0, text |-> "import pkg.other as np"]>>
      [] name = "ImportUnrelated" ->
             <<[indent |-> 0, text |-> "import other as np, pkgx as pkg"]>>
      [] name = "FromImportName" ->
             <<[indent |-> 0, text |-> "from pkg import np, fn as pkg"]>>
      [] name = "FromSubImport" ->
             <<[indent |-> 0, text |-> "from pkg.sub import fn as np"]>>
      [] name = "FromImportStar" ->
             <<[indent |-> 0, text |-> "from pkg import *"]>>
      [] name = "FromSubImportStar" ->
             <<[indent |-> 0, text |-> "from pkg.sub import *"]>>
      [] name = "FromRelative" ->
             <<[indent |-> 0, text |-> "from . import np"]>>
      [] name = "FromUnrelated" ->
             <<[indent |-> 0, text |-> "from other.pkg import np, pkg"]>>
      [] name = "CallStmt" ->
             <<[indent |-> 0, text |-> "np.array(pkg)"]>>
      [] name = "ChainAssign" ->
             <<[indent |-> 0, text |-> "x = pkg.sub.fn"]>>
      [] name = "CallChain" ->
             <<[indent |-> 0, text |-> "np.a().b"]>>
      [] name = "DecoratedDef" ->
             <<[indent |-> 0, text |-> "@np.deco"],
               [indent |-> 0, text |-> "def f(a=np.x, *, b=pkg.y) -> np.R:"],
               [indent |-> 4, text |-> "return np.a if pkg.b else np.c"]>>
      [] name = "ClassWithMethod" ->
             <<[indent |-> 0, text |-> "class K(np.Base):"],
               [indent |-> 4, text |-> "v = pkg"],
               [indent |-> 4, text |-> "def m(self):"],
               [indent |-> 8, text |-> "return np.z"]>>
      [] name = "NestedDef" ->
             <<[indent |-> 0, text |-> "async def g():"],
               [indent |-> 4, text |-> "np.o"],
               [indent |-> 4, text |-> "def h():"],
               [indent |-> 8, text |-> "import pkg.sub as np"],
               [indent |-> 8, text |-> "pkg.i"]>>
      [] name = "TopLevelIf" ->
             <<[indent |-> 0, text |-> "if np.t:"],
               [indent |-> 4, text |-> "z = pkg.u"]>>
      [] name = "SharedLine" ->
             <<[indent |-> 0, text |-> "x = np.p("],
               [indent |-> 2, text |-> "1); y = pkg.q("],
               [indent |-> 2, text |-> "2)"]>>
      [] OTHER -> <<[indent |-> 0, text |-> name]>>

(***************************************************************************)
(* Sample source texts: one import line, then usage fragments.             *)
(***************************************************************************)
ImportFragments ==
    {"ImportPlain", "ImportAs", "ImportSubmodule", "ImportSiblingAs",
     "ImportUnrelated", "FromImportName", "FromSubImport", "FromImportStar",
     "FromSubImportStar", "FromRelative", "FromUnrelated"}

UsageFragments ==
    {"CallStmt", "ChainAssign", "CallChain", "DecoratedDef", "ClassWithMethod",
     "NestedDef", "TopLevelIf", "SharedLine"}

\* texts ast.parse rejects:
\*   Unclosed     x = (                          SyntaxError
\*   DeepNesting  x = 1+1+ ... +1  (5000 terms)  RecursionError
\*   TooComplex   ---- ... ---1    (100000 -)    MemoryError
BrokenFragments == {"Unclosed", "DeepNesting", "TooComplex"}

Libraries == {<<"pkg">>, <<"pkg", ".", "sub">>, <<"other">>}

Bodies == UNION {[1..n -> UsageFragments] : n \in 1..MaxStmts}

Sources ==
    {<<i>> \o b : i \in ImportFragments, b \in Bodies}
        \cup {<<"ImportAs", x>> : x \in BrokenFragments}

\* how ast.parse(source) ends: "ok" or the exception it raises
ParseOutcome(src) ==
    IF \E i \in DOMAIN src : src[i] = "Unclosed" THEN "SyntaxError"
    ELSE IF \E i \in DOMAIN src : src[i] = "DeepNesting" THEN "RecursionError"
    ELSE IF \E i \in DOMAIN src : src[i] = "TooComplex" THEN "MemoryError"
    ELSE "ok"

\* source.splitlines()
RECURSIVE splitlines(_)
splitlines(src) ==
    IF src = <<>> THEN <<>>
    ELSE FragmentLines(Head(src)) \o splitlines(Tail(src))

RECURSIVE ParseBody(_, _)
ParseBody(src, l) ==
    IF src = <<>> THEN <<>>
    ELSE FragmentStmts(Head(src), l)
             \o ParseBody(Tail(src), l + Len(FragmentLines(Head(src))))

\* ast.parse(source), for a text it accepts
ast_parse(src) == Unplaced("Module", [body |-> ParseBody(src, 1)])

(***************************************************************************)
(* _LibraryUsageExtractor._populate_parent_links                           *)
(***************************************************************************)
EmptyDict == [p \in {} |-> p]

get(dict, key) == IF key \in DOMAIN dict THEN dict[key] ELSE NoNode

RECURSIVE PopulateLoop(_, _, _)
PopulateLoop(t, stk, par) ==
    IF stk = <<>> THEN par
    ELSE LET node == stk[Len(stk)]
             kids == ChildPaths(t, node)
         IN  PopulateLoop(t,
                          SubSeq(stk, 1, Len(stk) - 1) \o kids,
                          [c \in {kids[i] : i \in DOMAIN kids} |-> node] @@ par)

populate_parent_links(t) == PopulateLoop(t, <<Root>>, EmptyDict)

(***************************************************************************)
(* _AliasCollector                                                         *)
(***************************************************************************)
base_root(lib) == split(lib)[1]

\* matches_library with the root tested by containment (`base_root in
\* module_name`) instead of on the first segment
matches_library_by_containment(lib, module_name) ==
    \/ module_name = lib
    \/ startswith(module_name, lib \o Dot)
    \/ \E i \in DOMAIN module_name : <<module_name[i]>> = base_root(lib)

matches_library(lib, module_name) ==
    \/ module_name = lib
    \/ startswith(module_name, lib \o Dot)
    \/ split(module_name)[1] = base_root(lib)

\* ImportBinding taking the last segment (split(".")[-1]) for the first
ImportBinding_last_segment(alias) ==
    IF alias.asname # None THEN alias.asname
    ELSE split(alias.id)[Len(split(alias.id))]

\* the alias a matching `import P [as Z]` entry binds
ImportBinding(alias) ==
    IF alias.asname # None THEN alias.asname ELSE split(alias.id)[1]

RECURSIVE ImportNames(_, _, _)
ImportNames(lib, names, al) ==
    IF names = <<>> THEN al
    ELSE ImportNames(lib, Tail(names),
             IF matches_library(lib, Head(names).id)
             THEN al \cup {ImportBinding(Head(names))}
             ELSE al)

visit_Import(lib, node, al) == ImportNames(lib, node.kids.names, al)

\* the aliases one entry of a matching `from M import ...` binds
FromBinding(lib, module, alias) ==
    IF alias.id = <<"*">>
    THEN {split(module)[Len(split(module))], base_root(lib)}
    ELSE {IF alias.asname # None THEN alias.asname ELSE alias.id}

RECURSIVE FromNames(_, _, _, _)
FromNames(lib, module, names, al) ==
    IF names = <<>> THEN al
    ELSE FromNames(lib, module, Tail(names),
                   al \cup FromBinding(lib, module, Head(names)))

visit_ImportFrom(lib, node, al) ==
    IF node.id # None /\ matches_library(lib, node.id)
    THEN FromNames(lib, node.id, node.kids.names, al)
    ELSE al

\* NodeVisitor.visit for the alias collector: the class's visit_ method if
\* it has one; the children are visited next (generic_visit)
AliasVisitNode(lib, node, al) ==
    CASE node.kind = "Import" -> visit_Import(lib, node, al)
      [] node.kind = "ImportFrom" -> visit_ImportFrom(lib, node, al)
      [] OTHER -> al

(***************************************************************************)
(* _UsageCollector                                                         *)
(***************************************************************************)
part_of_attribute(par, t, p) ==
    LET pp == get(par, p)
    IN  /\ pp # NoNode
        /\ NodeAt(t, pp).kind = "Attribute"
        /\ ValuePath(pp) = p

RECURSIVE attribute_root(_, _)
attribute_root(t, p) ==
    IF NodeAt(t, p).kind = "Attribute"
    THEN attribute_root(t, ValuePath(p))
    ELSE p

RECURSIVE FullNameParts(_, _, _)
FullNameParts(t, p, parts) ==
    LET current == NodeAt(t, p)
    IN  IF current.kind = "Attribute"
        THEN FullNameParts(t, ValuePath(p), Append(parts, current.id))
        ELSE IF current.kind = "Name" THEN Append(parts, current.id)
        ELSE parts

\* attribute_full_name without reversed(): outermost attribute first
attribute_full_name_unreversed(t, p) == join(FullNameParts(t, p, <<>>))

attribute_full_name(t, p) == join(reversed(FullNameParts(t, p, <<>>)))

RECURSIVE EnclosingLoop(_, _, _, _)
EnclosingLoop(par, t, current, closest_stmt) ==
    IF current = NoNode THEN closest_stmt
    ELSE IF NodeAt(t, current).kind \in DefKinds THEN current
    ELSE EnclosingLoop(par, t, get(par, current),
                       IF NodeAt(t, current).kind \in StmtKinds
                       THEN current ELSE closest_stmt)

enclosing_block(par, t, p) == EnclosingLoop(par, t, p, NoNode)

\* blocks_map: a dict, kept as its entries in insertion order
HasKey(dict, key) == \E i \in DOMAIN dict : dict[i].key = key

DictSet(dict, key, value) ==
    IF HasKey(dict, key)
    THEN [i \in DOMAIN dict |->
             IF dict[i].key = key THEN [key |-> key, value |-> value]
             ELSE dict[i]]
    ELSE Append(dict, [key |-> key, value |-> value])

MinIndent(ls) ==
    CHOOSE m \in {ls[i].indent : i \in DOMAIN ls} :
        \A i \in DOMAIN ls : m <= ls[i].indent

\* textwrap.dedent("\n".join(snippet_lines)).strip(): the common margin goes,
\* then what is left of the first line's
snippet_of(snippet_lines) ==
    IF snippet_lines = <<>> THEN <<>>
    ELSE [i \in DOMAIN snippet_lines |->
             [indent |-> IF i = 1 THEN 0
                         ELSE snippet_lines[i].indent - MinIndent(snippet_lines),
              text |-> snippet_lines[i].text]]

\* _record without the `if key in self.blocks_map: return` test
record_overwriting(dict, lns, par, t, p, symbol) ==
    LET container == enclosing_block(par, t, p)
        c == NodeAt(t, container)
        start == c.lineno
        end == c.end_lineno
    IN  IF container = NoNode THEN dict
        ELSE IF ~c.placed THEN dict
        ELSE DictSet(dict, <<start, end>>,
                     [start_line |-> start, end_line |-> end,
                      symbol |-> symbol,
                      snippet |-> snippet_of(SubSeq(lns, start, end))])

\* _record's map after the call
record(dict, lns, par, t, p, symbol) ==
    LET container == enclosing_block(par, t, p)
        c == NodeAt(t, container)
        start == c.lineno
        end == c.end_lineno
        key == <<start, end>>
    IN  IF container = NoNode THEN dict
        ELSE IF ~c.placed THEN dict
        ELSE IF HasKey(dict, key) THEN dict
        ELSE DictSet(dict, key,
                     [start_line |-> start, end_line |-> end,
                      symbol |-> symbol,
                      snippet |-> snippet_of(SubSeq(lns, start, end))])

\* the test of visit_Name
NameIsCandidate(al, par, t, p) ==
    /\ NodeAt(t, p).id \in al
    /\ ~part_of_attribute(par, t, p)

\* the test of visit_Attribute
AttributeIsCandidate(al, t, p) ==
    LET root == NodeAt(t, attribute_root(t, p))
    IN  root.kind = "Name" /\ root.id \in al

visit_Name(dict, al, lns, par, t, p) ==
    IF NameIsCandidate(al, par, t, p)
    THEN record(dict, lns, par, t, p, NodeAt(t, p).id)
    ELSE dict

visit_Attribute(dict, al, lns, par, t, p) ==
    IF AttributeIsCandidate(al, t, p)
    THEN record(dict, lns, par, t, p, attribute_full_name(t, p))
    ELSE dict

\* NodeVisitor.visit for the usage collector
UsageVisitNode(dict, al, lns, par, t, p) ==
    CASE NodeAt(t, p).kind = "Name" -> visit_Name(dict, al, lns, par, t, p)
      [] NodeAt(t, p).kind = "Attribute" ->
             visit_Attribute(dict, al, lns, par, t, p)
      [] OTHER -> dict

\* whether the visit of p calls _record, and with which symbol
CallsRecord(al, par, t, p) ==
    \/ NodeAt(t, p).kind = "Name" /\ NameIsCandidate(al, par, t, p)
    \/ NodeAt(t, p).kind = "Attribute" /\ AttributeIsCandidate(al, t, p)

RecordedSymbol(t, p) ==
    IF NodeAt(t, p).kind = "Name" THEN NodeAt(t, p).id
    ELSE attribute_full_name(t, p)

\* the blocks property
blocks(dict) == [i \in DOMAIN dict |-> dict[i].value]

\* generic_visit: the children come next, in order, before what was pending
generic_visit(t, stk) == ChildPaths(t, Head(stk)) \o Tail(stk)

(***************************************************************************)
(* One extractor run, node by node.                                        *)
(***************************************************************************)
IdleFacade ==
    /\ fpc = "idle"
    /\ max_files = 0 /\ per_page = 1 /\ gathered = 0 /\ page = 1
    /\ items = <<>> /\ requests = <<>> /\ downloads = <<>>
    /\ analysed = 0 /\ results = <<>>

\* a _LibraryUsageExtractor about to be constructed
FreshExtractor ==
    /\ tree = Unplaced("Module", [body |-> <<>>])
    /\ lines = <<>>
    /\ parent = EmptyDict
    /\ stack = <<>>
    /\ aliases = {}
    /\ blocks_map = <<>>
    /\ recorded = <<>>
    /\ origin = <<>>
    /\ result = <<>>

Init ==
    /\ library \in Libraries
    /\ source \in Sources
    /\ pc = "new"
    /\ FreshExtractor
    /\ raised = "none"
    /\ IdleFacade

\* _LibraryUsageExtractor.__init__, the text parses
Construct ==
    /\ pc = "new"
    /\ ParseOutcome(source) = "ok"
    /\ lines' = splitlines(source)
    /\ tree' = ast_parse(source)
    /\ parent' = EmptyDict
    /\ pc' = "constructed"
    /\ UNCHANGED <<library, source, stack, aliases, blocks_map, recorded,
                   origin, result, raised>>
    /\ UNCHANGED facadeVars

\* _LibraryUsageExtractor.__init__, ast.parse raises
ConstructFails ==
    /\ pc = "new"
    /\ ParseOutcome(source) # "ok"
    /\ lines' = splitlines(source)
    /\ raised' = ParseOutcome(source)
    /\ pc' = "raised"
    /\ UNCHANGED <<library, source, tree, parent, stack, aliases, blocks_map,
                   recorded, origin, result>>
    /\ UNCHANGED facadeVars

\* extract_blocks up to alias_collector.visit(self.tree)
StartAliases ==
    /\ pc = "constructed"
    /\ parent' = populate_parent_links(tree)
    /\ aliases' = {}
    /\ stack' = <<Root>>
    /\ pc' = "aliases"
    /\ UNCHANGED <<library, source, tree, lines, blocks_map, recorded, origin,
                   result, raised>>
    /\ UNCHANGED facadeVars

\* the alias collector visits one node
AliasVisit ==
    /\ pc = "aliases"
    /\ stack # <<>>
    /\ aliases' = AliasVisitNode(library, NodeAt(tree, Head(stack)), aliases)
    /\ stack' = generic_visit(tree, stack)
    /\ UNCHANGED <<library, source, pc, tree, lines, parent, blocks_map,
                   recorded, origin, result, raised>>
    /\ UNCHANGED facadeVars

\* if not alias_names: return []
ReturnNoAliases ==
    /\ pc = "aliases"
    /\ stack = <<>>
    /\ aliases = {}
    /\ result' = <<>>
    /\ pc' = "done"
    /\ UNCHANGED <<library, source, tree, lines, parent, stack, aliases,
                   blocks_map, recorded, origin, raised>>
    /\ UNCHANGED facadeVars

\* usage_collector = _UsageCollector(...); usage_collector.visit(self.tree)
StartUsages ==
    /\ pc = "aliases"
    /\ stack = <<>>
    /\ aliases # {}
    /\ blocks_map' = <<>>
    /\ stack' = <<Root>>
    /\ pc' = "usages"
    /\ UNCHANGED <<library, source, tree, lines, parent, aliases, recorded,
                   origin, result, raised>>
    /\ UNCHANGED facadeVars

\* the usage collector visits one node
UsageVisit ==
    /\ pc = "usages"
    /\ stack # <<>>
    /\ LET p == Head(stack)
       IN  /\ blocks_map' =
                  UsageVisitNode(blocks_map, aliases, lines, parent, tree, p)
           /\ recorded' =
                  IF CallsRecord(aliases, parent, tree, p)
                  THEN Append(recorded,
                              [node |-> p,
                               symbol |-> RecordedSymbol(tree, p),
                               container |-> enclosing_block(parent, tree, p)])
                  ELSE recorded
           /\ origin' =
                  IF Len(blocks_map') > Len(blocks_map)
                  THEN Append(origin, p) ELSE origin
    /\ stack' = generic_visit(tree, stack)
    /\ UNCHANGED <<library, source, pc, tree, lines, parent, aliases, result,
                   raised>>
    /\ UNCHANGED facadeVars

\* return usage_collector.blocks
ReturnBlocks ==
    /\ pc = "usages"
    /\ stack = <<>>
    /\ result' = blocks(blocks_map)
    /\ pc' = "done"
    /\ UNCHANGED <<library, source, tree, lines, parent, stack, aliases,
                   blocks_map, recorded, origin, raised>>
    /\ UNCHANGED facadeVars

Next ==
    \/ Construct
    \/ ConstructFails
    \/ StartAliases
    \/ AliasVisit
    \/ ReturnNoAliases
    \/ StartUsages
    \/ UsageVisit
    \/ ReturnBlocks

Spec == Init /\ [][Next]_vars

(***************************************************************************)
(* GitHubLibraryAnalyzer.analyze_library: the paged code search, then one  *)
(* extractor run per item found.                                           *)
(***************************************************************************)
DotPy == <<".", "py">>

\* the items a /search/code page may hold: a.py, b.py.txt, py
SearchItems ==
    {[name |-> <<"a", ".", "py">>],
     [name |-> <<"b", ".", "py", ".", "txt">>],
     [name |-> <<"py">>]}

\* payload.get("items", []) of a successful response: at most per_page items
Pages(n) == UNION {[1..k -> SearchItems] : k \in 0..n}

\* the texts _download_source may hand back
FacadeSources ==
    {<<"ImportAs", "CallStmt">>, <<"ImportUnrelated", "ChainAssign">>,
     <<"ImportAs", "Unclosed">>, <<"ImportAs", "DeepNesting">>}

\* the for loop over one page without its `if gathered >= limit: break`
TakePageNoBreak(page_items, g, limit) ==
    SelectSeq(page_items, LAMBDA it : endswith(it.name, DotPy))

\* the for loop over one page: what it yields, with `g` gathered before it
RECURSIVE TakePage(_, _, _)
TakePage(page_items, g, limit) ==
    IF page_items = <<>> THEN <<>>
    ELSE IF endswith(Head(page_items).name, DotPy)
    THEN IF g + 1 >= limit THEN <<Head(page_items)>>
         ELSE <<Head(page_items)>> \o TakePage(Tail(page_items), g + 1, limit)
    ELSE TakePage(Tail(page_items), g, limit)

\* the while condition of _iter_code_search_results
KeepSearching(g, limit) == g < limit

\* what analyze_library appends for one extracted block
CodeBlock(item, block) ==
    [file |-> item.name, start_line |-> block.start_line,
     end_line |-> block.end_line, symbol |-> block.symbol,
     snippet |-> block.snippet]

InitFacade ==
    /\ library \in Libraries
    /\ max_files \in -1..MaxFilesBound
    /\ per_page \in 1..PerPageBound
    /\ fpc = "search"
    /\ gathered = 0
    /\ page = 1
    /\ items = <<>>
    /\ requests = <<>>
    /\ downloads = <<>>
    /\ analysed = 0
    /\ results = <<>>
    /\ source = <<>>
    /\ pc = "none"
    /\ FreshExtractor
    /\ raised = "none"

Request == [page |-> page, gathered |-> gathered]

\* one turn of the while loop: the request is answered with a page
SearchPage ==
    /\ fpc = "search"
    /\ KeepSearching(gathered, max_files)
    /\ \E got \in Pages(per_page) :
          /\ page > MaxPages => got = <<>>
          /\ requests' = Append(requests, Request @@ [empty |-> got = <<>>])
          /\ IF got = <<>>
             THEN /\ fpc' = "files"
                  /\ UNCHANGED <<items, gathered, page>>
             ELSE /\ items' = items \o TakePage(got, gathered, max_files)
                  /\ gathered' = gathered + Len(TakePage(got, gathered, max_files))
                  /\ page' = page + 1
                  /\ fpc' = fpc
    /\ UNCHANGED <<library, source, pc, tree, lines, parent, stack, aliases,
                   blocks_map, recorded, origin, result, raised>>
    /\ UNCHANGED <<max_files, per_page, downloads, analysed, results>>

\* the request is answered 403, rate limit exceeded: GitHubError
SearchRateLimited ==
    /\ fpc = "search"
    /\ KeepSearching(gathered, max_files)
    /\ requests' = Append(requests, Request @@ [empty |-> TRUE])
    /\ raised' = "GitHubError"
    /\ fpc' = "raised"
    /\ UNCHANGED <<library, source, pc, tree, lines, parent, stack, aliases,
                   blocks_map, recorded, origin, result>>
    /\ UNCHANGED <<max_files, per_page, gathered, page, items, downloads,
                   analysed, results>>

\* the request is answered with another error status: raise_for_status
SearchHttpError ==
    /\ fpc = "search"
    /\ KeepSearching(gathered, max_files)
    /\ requests' = Append(requests, Request @@ [empty |-> TRUE])
    /\ raised' = "HTTPStatusError"
    /\ fpc' = "raised"
    /\ UNCHANGED <<library, source, pc, tree, lines, parent, stack, aliases,
                   blocks_map, recorded, origin, result>>
    /\ UNCHANGED <<max_files, per_page, gathered, page, items, downloads,
                   analysed, results>>

\* the while condition fails: the generator is exhausted
SearchExhausted ==
    /\ fpc = "search"
    /\ ~KeepSearching(gathered, max_files)
    /\ fpc' = "files"
    /\ UNCHANGED <<library, source, pc, tree, lines, parent, stack, aliases,
                   blocks_map, recorded, origin, result, raised>>
    /\ UNCHANGED <<max_files, per_page, gathered, page, items, requests,
                   downloads, analysed, results>>

\* _download_source raises: continue
DownloadFails ==
    /\ fpc = "files"
    /\ analysed < Len(items)
    /\ downloads' = Append(downloads, items[analysed + 1])
    /\ analysed' = analysed + 1
    /\ UNCHANGED <<library, source, pc, tree, lines, parent, stack, aliases,
                   blocks_map, recorded, origin, result, raised>>
    /\ UNCHANGED <<fpc, max_files, per_page, gathered, page, items, requests,
                   results>>

\* _download_source returns a text; _LibraryUsageExtractor(library, source)
DownloadItem ==
    /\ fpc = "files"
    /\ analysed < Len(items)
    /\ downloads' = Append(downloads, items[analysed + 1])
    /\ source' \in FacadeSources
    /\ pc' = "new"
    /\ tree' = Unplaced("Module", [body |-> <<>>])
    /\ lines' = <<>>
    /\ parent' = EmptyDict
    /\ stack' = <<>>
    /\ aliases' = {}
    /\ blocks_map' = <<>>
    /\ recorded' = <<>>
    /\ origin' = <<>>
    /\ result' = <<>>
    /\ fpc' = "extracting"
    /\ UNCHANGED <<library, raised>>
    /\ UNCHANGED <<max_files, per_page, gathered, page, items, requests,
                   analysed, results>>

\* except SyntaxError: continue
CatchSyntaxError ==
    /\ fpc = "extracting"
    /\ pc = "raised"
    /\ raised = "SyntaxError"
    /\ raised' = "none"
    /\ pc' = "none"
    /\ analysed' = analysed + 1
    /\ fpc' = "files"
    /\ UNCHANGED <<library, source, tree, lines, parent, stack, aliases,
                   blocks_map, recorded, origin, result>>
    /\ UNCHANGED <<max_files, per_page, gathered, page, items, requests,
                   downloads, results>>

\* any other exception of the constructor leaves analyze_library
ConstructorErrorEscapes ==
    /\ fpc = "extracting"
    /\ pc = "raised"
    /\ raised # "SyntaxError"
    /\ fpc' = "raised"
    /\ UNCHANGED <<library, source, pc, tree, lines, parent, stack, aliases,
                   blocks_map, recorded, origin, result, raised>>
    /\ UNCHANGED <<max_files, per_page, gathered, page, items, requests,
                   downloads, analysed, results>>

\* for block in blocks: results.append(CodeBlock(...))
CollectBlocks ==
    /\ fpc = "extracting"
    /\ pc = "done"
    /\ results' = results \o
           [i \in DOMAIN result |-> CodeBlock(items[analysed + 1], result[i])]
    /\ analysed' = analysed + 1
    /\ pc' = "none"
    /\ fpc' = "files"
    /\ UNCHANGED <<library, source, tree, lines, parent, stack, aliases,
                   blocks_map, recorded, origin, result, raised>>
    /\ UNCHANGED <<max_files, per_page, gathered, page, items, requests,
                   downloads>>

\* return results
ReturnResults ==
    /\ fpc = "files"
    /\ analysed = Len(items)
    /\ fpc' = "returned"
    /\ UNCHANGED <<library, source, pc, tree, lines, parent, stack, aliases,
                   blocks_map, recorded, origin, result, raised>>
    /\ UNCHANGED <<max_files, per_page, gathered, page, items, requests,
                   downloads, analysed, results>>

NextFacade ==
    \/ SearchPage
    \/ SearchRateLimited
    \/ SearchHttpError
    \/ SearchExhausted
    \/ DownloadFails
    \/ DownloadItem
    \/ Construct
    \/ ConstructFails
    \/ StartAliases
    \/ AliasVisit
    \/ ReturnNoAliases
    \/ StartUsages
    \/ UsageVisit
    \/ ReturnBlocks
    \/ CatchSyntaxError
    \/ ConstructorErrorEscapes
    \/ CollectBlocks
    \/ ReturnResults

SpecFacade == InitFacade /\ [][NextFacade]_vars

(***************************************************************************)
(* The properties checked.  What they need of the tree is stated here on   *)
(* the tree itself (paths and their prefixes), not through the collectors' *)
(* parent map or helpers.                                                  *)
(***************************************************************************)
ParentOf(p) == SubSeq(p, 1, Len(p) - 1)

\* p and the paths of its ancestors
Prefixes(p) == {SubSeq(p, 1, k) : k \in 0..Len(p)}

\* the longest path of a nonempty set of prefixes of one path
Longest(ps) == CHOOSE q \in ps : \A r \in ps : Len(r) <= Len(q)

\* p is the `value` of an Attribute
IsValueOfAttribute(p) ==
    /\ p # Root
    /\ NodeAt(tree, ParentOf(p)).kind = "Attribute"

\* the identifiers of a dotted name, without the dots
Segments(s) == SelectSeq(s, LAMBDA tok : tok # ".")

\* the match rule of the alias resolver: P == L, P starts with L + ".", or
\* the first segments agree
MatchRule(L, P) ==
    \/ P = L
    \/ /\ Len(P) > Len(L)
       /\ \A i \in 1..Len(L) : P[i] = L[i]
       /\ P[Len(L) + 1] = "."
    \/ Segments(P)[1] = Segments(L)[1]

NodesOfKind(kind) == {p \in AllPaths(tree) : NodeAt(tree, p).kind = kind}

SpanOf(p) == <<NodeAt(tree, p).lineno, NodeAt(tree, p).end_lineno>>

Position(p) == <<NodeAt(tree, p).lineno, NodeAt(tree, p).col_offset>>

Before(a, b) == a[1] < b[1] \/ (a[1] = b[1] /\ a[2] < b[2])

\* the _record calls made for whole references (not for the inner part of a
\* longer dotted chain)
References ==
    {i \in DOMAIN recorded : ~IsValueOfAttribute(recorded[i].node)}

----------------------------------------------------------------------------
\* C1: a source text that fails to parse contributes nothing and no exception
\* of the parse leaves analyze_library.
C1_ParseFailureStaysInside ==
    ~(fpc = "raised" /\ pc = "raised" /\ ParseOutcome(source) # "ok")

----------------------------------------------------------------------------
\* no statement imports L itself or a submodule of L
NoImportOfLibrary ==
    /\ \A p \in NodesOfKind("Import") :
          \A i \in DOMAIN NodeAt(tree, p).kids.names :
             LET P == NodeAt(tree, p).kids.names[i].id
             IN  ~(P = library \/ startswith(P, library \o Dot))
    /\ \A p \in NodesOfKind("ImportFrom") :
          LET M == NodeAt(tree, p).id
          IN  ~(M = library \/ startswith(M, library \o Dot))

\* no statement imports a module that the match rule accepts
NoMatchingImport ==
    /\ \A p \in NodesOfKind("Import") :
          \A i \in DOMAIN NodeAt(tree, p).kids.names :
             ~MatchRule(library, NodeAt(tree, p).kids.names[i].id)
    /\ \A p \in NodesOfKind("ImportFrom") :
          \/ NodeAt(tree, p).id = None
          \/ ~MatchRule(library, NodeAt(tree, p).id)

\* C2 as stated: a text with no import of L or of a submodule of L yields no
\* blocks.
C2_NoImportOfLibraryNoBlocks ==
    (pc = "done" /\ NoImportOfLibrary) => result = <<>>

\* C2 as amended: a text with no import whose module path matches L (equal,
\* starting with L + ".", or sharing L's first segment) yields no blocks,
\* whatever names it references.
C2_NoMatchingImportNoBlocks ==
    (pc = "done" /\ NoMatchingImport) => result = <<>>

C2_Witness ==
    /\ pc = "done"
    /\ NoMatchingImport
    /\ result = <<>>
    /\ NodesOfKind("Import") # {}
    /\ \E p \in NodesOfKind("Attribute") :
          NodeAt(tree, ValuePath(p)).id \in {<<"np">>, <<"pkg">>}

----------------------------------------------------------------------------
RefsIn(c) == {i \in References : recorded[i].container = c}

FirstRef(c) ==
    CHOOSE i \in RefsIn(c) :
        \A j \in RefsIn(c) \ {i} :
            Before(Position(recorded[i].node), Position(recorded[j].node))

\* C3: two or more references in one function give exactly one block for
\* it, with the symbol of the reference that comes first in the source text.
C3_FirstInDocumentOrder ==
    pc = "done" =>
        \A c \in {recorded[i].container : i \in DOMAIN recorded} :
            (/\ NodeAt(tree, c).kind \in {"FunctionDef", "AsyncFunctionDef"}
             /\ Cardinality(RefsIn(c)) >= 2)
            => /\ Cardinality({k \in DOMAIN result :
                      <<result[k].start_line, result[k].end_line>> = SpanOf(c)})
                  = 1
               /\ \A k \in DOMAIN result :
                      <<result[k].start_line, result[k].end_line>> = SpanOf(c)
                      => result[k].symbol = recorded[FirstRef(c)].symbol

----------------------------------------------------------------------------
\* C4: no two blocks share a (start_line, end_line) pair, and a block once
\* stored is never changed by a later _record call.
C4_SpansUniqueBlocksPermanent ==
    [][/\ \A i, j \in DOMAIN blocks_map' :
              blocks_map'[i].key = blocks_map'[j].key => i = j
       /\ \A i \in DOMAIN blocks_map' :
              blocks_map'[i].key =
                  <<blocks_map'[i].value.start_line,
                    blocks_map'[i].value.end_line>>
       /\ pc = "usages" =>
              \A i \in DOMAIN blocks_map :
                  /\ i \in DOMAIN blocks_map'
                  /\ blocks_map'[i] = blocks_map[i]]_vars

\* a later candidate with another symbol was discarded
C4_Witness ==
    /\ pc = "usages"
    /\ \E i \in DOMAIN recorded, k \in DOMAIN blocks_map :
          /\ SpanOf(recorded[i].container) = blocks_map[k].key
          /\ recorded[i].symbol # blocks_map[k].value.symbol

----------------------------------------------------------------------------
\* C5: the line ranges of two distinct blocks of one analysis have no line in
\* common.
C5_BlocksDisjoint ==
    pc = "done" =>
        \A i, j \in DOMAIN result :
            i # j => \/ result[i].end_line < result[j].start_line
                     \/ result[j].end_line < result[i].start_line

----------------------------------------------------------------------------
\* the nearest enclosing definition, else the nearest enclosing statement,
\* else nothing
NearestBlock(p) ==
    LET defs == {q \in Prefixes(p) : NodeAt(tree, q).kind \in DefKinds}
        stmts == {q \in Prefixes(p) : NodeAt(tree, q).kind \in StmtKinds}
    IN  IF defs # {} THEN Longest(defs)
        ELSE IF stmts # {} THEN Longest(stmts)
        ELSE NoNode

\* C6: the enclosing block of a candidate is its nearest function or class
\* ancestor, else its nearest statement ancestor.
C6_NearestEnclosing ==
    \A i \in DOMAIN recorded :
        recorded[i].container = NearestBlock(recorded[i].node)

----------------------------------------------------------------------------
\* the base identifier, then every attribute, in source order
RECURSIVE DottedPath(_)
DottedPath(p) ==
    IF NodeAt(tree, p).kind = "Attribute"
    THEN DottedPath(ValuePath(p)) \o <<".">> \o NodeAt(tree, p).id
    ELSE NodeAt(tree, p).id

\* C7: a block stored for a dotted chain carries the whole chain as its
\* symbol, the chain is the outermost one, and a chain's base identifier is
\* never a candidate of its own.
C7_FullDottedSymbol ==
    /\ \A k \in DOMAIN blocks_map :
          (k \in DOMAIN origin /\ NodeAt(tree, origin[k]).kind = "Attribute")
          => /\ blocks_map[k].value.symbol = DottedPath(origin[k])
             /\ ~IsValueOfAttribute(origin[k])
    /\ \A i \in DOMAIN recorded :
          NodeAt(tree, recorded[i].node).kind = "Name"
          => ~IsValueOfAttribute(recorded[i].node)

\* pkg.sub.fn was the first candidate of its block
C7_Witness ==
    /\ pc = "done"
    /\ \E k \in DOMAIN blocks_map :
          /\ NodeAt(tree, origin[k]).kind = "Attribute"
          /\ Len(Segments(blocks_map[k].value.symbol)) >= 3
          /\ result[k].symbol = <<"pkg", ".", "sub", ".", "fn">>

----------------------------------------------------------------------------
ExpectedFromImports ==
    UNION {{IF a.asname # None THEN a.asname ELSE <<Segments(a.id)[1]>> :
              a \in {NodeAt(tree, p).kids.names[i] :
                        i \in {j \in DOMAIN NodeAt(tree, p).kids.names :
                                  MatchRule(library,
                                            NodeAt(tree, p).kids.names[j].id)}}}
           : p \in NodesOfKind("Import")}

ExpectedFromEntry(M, a) ==
    IF a.id = <<"*">>
    THEN {<<Segments(M)[Len(Segments(M))]>>, <<Segments(library)[1]>>}
    ELSE {IF a.asname # None THEN a.asname ELSE a.id}

ExpectedFromFromImports ==
    UNION {UNION {ExpectedFromEntry(NodeAt(tree, p).id,
                                    NodeAt(tree, p).kids.names[i]) :
                     i \in DOMAIN NodeAt(tree, p).kids.names}
           : p \in {q \in NodesOfKind("ImportFrom") :
                       /\ NodeAt(tree, q).id # None
                       /\ MatchRule(library, NodeAt(tree, q).id)}}

\* C8: once the import statements are scanned the AliasSet is exactly what
\* the import rules give, and it stays so while usages are scanned.
C8_AliasSetExact ==
    (\/ pc = "aliases" /\ stack = <<>>
     \/ pc = "usages"
     \/ pc = "done")
    => aliases = ExpectedFromImports \cup ExpectedFromFromImports

\* usages are being scanned with two aliases, one of them from a wildcard
C8_Witness ==
    /\ pc = "usages"
    /\ recorded # <<>>
    /\ Cardinality(aliases) >= 2
    /\ \E p \in NodesOfKind("ImportFrom") :
          NodeAt(tree, p).kids.names[1].id = <<"*">>

----------------------------------------------------------------------------
\* C9: at most max_files results are downloaded, all of them .py items; no
\* request follows an empty page or the max_files-th item; no request at all
\* with max_files <= 0.
C9_AtMostMaxFilesPyItems ==
    /\ Len(downloads) <= (IF max_files > 0 THEN max_files ELSE 0)
    /\ Len(items) <= (IF max_files > 0 THEN max_files ELSE 0)
    /\ \A i \in DOMAIN downloads :
          LET n == downloads[i].name
          IN  Len(n) >= 2 /\ n[Len(n) - 1] = "." /\ n[Len(n)] = "py"
    /\ \A i \in DOMAIN requests :
          /\ requests[i].gathered < max_files
          /\ i < Len(requests) => ~requests[i].empty
    /\ max_files <= 0 => (requests = <<>> /\ downloads = <<>>)

\* a call that went through several pages and analysed max_files files
C9_Witness ==
    /\ fpc = "returned"
    /\ max_files >= 2
    /\ Len(downloads) = max_files
    /\ Len(requests) >= 2
    /\ results # <<>>

----------------------------------------------------------------------------
\* C10: the line of every recorded reference lies within the span of its
\* block.
C10_SpanContainsReference ==
    \A i \in DOMAIN recorded :
        recorded[i].container # NoNode
        => /\ NodeAt(tree, recorded[i].container).lineno
                  <= NodeAt(tree, recorded[i].node).lineno
           /\ NodeAt(tree, recorded[i].node).lineno
                  <= NodeAt(tree, recorded[i].container).end_lineno

====
